---- MODULE Spec2Model ----
(***************************************************************************)
(* Model of vit_reimplement.py: the ViT classifier's construction and      *)
(* forward shape algebra, and the two mixed-precision training runs of the *)
(* script (from-scratch, lines 1-243; fine-tuning, lines 245-361).         *)
(*                                                                         *)
(* The two training runs are the two sections of the file, each started    *)
(* from the names its own lines (and the lines above them) bind.           *)
(*                                                                         *)
(* GradScaler, the optimizer, the DataLoader and Conv2d are library        *)
(* objects; they are modelled by what the calls at the cited lines do on   *)
(* a CUDA device (DEVICE = "cuda", where GradScaler() is enabled):         *)
(*   scaler.scale(loss).backward()  gradients of loss * scale              *)
(*   scaler.step(optimizer)         unscale the gradients, look for        *)
(*                                  inf/NaN, call optimizer.step() only    *)
(*                                  when none was found                    *)
(*   scaler.update()                found: scale * backoff_factor (0.5),   *)
(*                                  growth tracker 0; none found: tracker  *)
(*                                  + 1, and at growth_interval the scale  *)
(*                                  * growth_factor (2.0), tracker 0       *)
(* The loss scale is a power of two throughout (2.**16 times powers of 2.0 *)
(* and 0.5, exact in binary floating point within the exponents reached    *)
(* here), so the model keeps its base-2 logarithm, scale_log2.             *)
(* Tensors are abstracted: params counts the optimizer updates applied,    *)
(* moments.step the optimizer's step count, moments.scaled the updates     *)
(* made from gradients that were still multiplied by the loss scale.       *)
(* running_loss (a float sum that decides no branch) is left out.          *)
(***************************************************************************)
EXTENDS Integers, Sequences, FiniteSets, TLC

\* ---------------------------------------------------------------- bounds
\* Stand-ins for len(trainset) = 50000, len(testset) = 10000, batch_size = 64
\* and GradScaler's growth_interval = 2000.
TrainSetSize == 7
TestSetSize == 3
BatchSize == 2
GrowthInterval == 2

\* ------------------------------------------------------ program constants
EPOCHS_scratch == 10
EPOCHS == 5
\* GradScaler() defaults: init_scale = 2.**16, growth_factor = 2.0,
\* backoff_factor = 0.5, as base-2 logarithms.
InitScaleLog2 == 16
GrowthFactorLog2 == 1
BackoffFactorLog2 == -1

Min(a, b) == IF a <= b THEN a ELSE b

\* ------------------------------------------------------------- DataLoader
\* len(loader) with drop_last = False.
NumBatches(n) == (n + BatchSize - 1) \div BatchSize

\* labels.size(0) of batch k (0-based): the last batch may be shorter.
BatchLen_full(n, k) == BatchSize
BatchLen(n, k) == Min(BatchSize, n - k * BatchSize)

Epochs(r) == IF r = "scratch" THEN EPOCHS_scratch ELSE EPOCHS

\* ------------------------------------------------------------- GradScaler
NoGrad == [present |-> FALSE, finite |-> TRUE, scaled |-> FALSE]

\* loss * scale, then backward: every gradient carries the factor.
ScaledBackward(finite) == [present |-> TRUE, finite |-> finite, scaled |-> TRUE]

\* scaler.unscale_ inside scaler.step: grad * (1 / scale).
Unscale_keep(g) == g
Unscale(g) == [g EXCEPT !.scaled = FALSE]

\* optimizer.step(): one Adam/AdamW update from the gradients as they are.
OptimizerStep(p, m, g) ==
    [params |-> p + 1,
     moments |-> [step |-> m.step + 1,
                  scaled |-> m.scaled + (IF g.scaled THEN 1 ELSE 0)]]

\* scaler.step's _maybe_opt_step: optimizer.step() unless inf/NaN was found.
MaybeOptStep_always(p, m, g, inf) == OptimizerStep(p, m, g)
MaybeOptStep(p, m, g, inf) ==
    IF inf THEN [params |-> p, moments |-> m] ELSE OptimizerStep(p, m, g)

\* scaler.update(): the new (scale, growth tracker).
UpdateScale_quarter(s, t, inf) ==
    IF inf
    THEN [scale_log2 |-> s + 2 * BackoffFactorLog2, growth_tracker |-> 0]
    ELSE IF t + 1 = GrowthInterval
         THEN [scale_log2 |-> s + GrowthFactorLog2, growth_tracker |-> 0]
         ELSE [scale_log2 |-> s, growth_tracker |-> t + 1]
UpdateScale(s, t, inf) ==
    IF inf
    THEN [scale_log2 |-> s + BackoffFactorLog2, growth_tracker |-> 0]
    ELSE IF t + 1 = GrowthInterval
         THEN [scale_log2 |-> s + GrowthFactorLog2, growth_tracker |-> 0]
         ELSE [scale_log2 |-> s, growth_tracker |-> t + 1]

\* 100. * correct / total, kept as an exact fraction.
Accuracy(c, t) == [num |-> 100 * c, den |-> t]

\* ------------------------------------------------------------------ state
VARIABLES
    run,            \* "scratch" | "finetune": the section of the script
    pc,             \* the statement the run is at
    epoch,          \* epoch of the for loop (238 / 356)
    i,              \* batch index of the running pass
    correct, total, \* tallies of the running pass
    training,       \* model.training
    params,         \* model parameters (updates applied)
    moments,        \* optimizer state
    grads,          \* param.grad of all parameters
    scaler_bound,   \* whether the global name scaler is bound
    scale_log2,     \* log2 of the scaler's scale (read only when bound)
    growth_tracker, \* the scaler's count of consecutive unskipped steps
    found_inf,      \* the scaler's per-step inf/NaN flag
    before,         \* history: the training state when the step began
    cfg, vit, out,  \* ViT configuration, construction result, forward result
    pair            \* two training runs side by side (SpecPair)

trainVars == <<run, pc, epoch, i, correct, total, training, params, moments,
               grads, scaler_bound, scale_log2, growth_tracker, found_inf, before>>
vitVars == <<cfg, vit, out>>
vars == <<trainVars, vitVars, pair>>

Snapshot ==
    [params |-> params, moments |-> moments,
     scale_log2 |-> scale_log2, growth_tracker |-> growth_tracker]

NoCfg == [image_size |-> 1, patch_size |-> 1, dim |-> 1, heads |-> 1,
          channels |-> 1, depth |-> 0]
NewCopy == [scale_log2 |-> InitScaleLog2, growth_tracker |-> 0, skipped |-> 0]
NoPair == [a |-> NewCopy, b |-> NewCopy,
           epoch |-> 0, i |-> 0, correct |-> 0, total |-> 0]
NoOut == [ch |-> 0, h |-> 0, w |-> 0, result |-> "none"]

\* The state each section starts its epoch loop in. The from-scratch section
\* (lines 1-243) binds model, criterion and optimizer but not scaler, which
\* line 265 binds; the fine-tuning section starts after line 300.
TrainInit ==
    /\ run \in {"scratch", "finetune"}
    /\ pc = "train_begin"
    /\ epoch = 0
    /\ i = 0
    /\ correct = 0
    /\ total = 0
    /\ training = TRUE
    /\ params = 0
    /\ moments = [step |-> 0, scaled |-> 0]
    /\ grads = NoGrad
    /\ scaler_bound = (run = "finetune")
    /\ scale_log2 = InitScaleLog2
    /\ growth_tracker = 0
    /\ found_inf = FALSE
    /\ before = Snapshot

VitIdle == cfg = NoCfg /\ vit = "none" /\ out = NoOut
PairIdle == pair = NoPair

Init == TrainInit /\ VitIdle /\ PairIdle

\* ------------------------------------------------------- train_one_epoch
\* Lines 180-185 / 302-307: model.train(), tallies to zero.
TrainBegin ==
    /\ pc = "train_begin"
    /\ training' = TRUE
    /\ correct' = 0
    /\ total' = 0
    /\ i' = 0
    /\ pc' = "forward"
    /\ UNCHANGED <<run, epoch, params, moments, grads, scaler_bound, scale_log2,
                   growth_tracker, found_inf, before>>
    /\ UNCHANGED <<vitVars, pair>>

\* Lines 187-195 / 309-315: next batch, optimizer.zero_grad(), forward, loss.
Forward ==
    /\ pc = "forward"
    /\ grads' = NoGrad
    /\ before' = Snapshot
    /\ pc' = "backward"
    /\ UNCHANGED <<run, epoch, i, correct, total, training, params, moments,
                   scaler_bound, scale_log2, growth_tracker, found_inf>>
    /\ UNCHANGED <<vitVars, pair>>

\* Line 197 with scaler unbound: NameError, the run ends.
BackwardNameError ==
    /\ pc = "backward"
    /\ ~scaler_bound
    /\ pc' = "NameError"
    /\ UNCHANGED <<run, epoch, i, correct, total, training, params, moments,
                   grads, scaler_bound, scale_log2, growth_tracker, found_inf,
                   before>>
    /\ UNCHANGED <<vitVars, pair>>

\* Line 197 / 317: scaler.scale(loss).backward(). Whether a gradient comes out
\* inf/NaN depends on the batch and the scale: an input of the step.
Backward ==
    /\ pc = "backward"
    /\ scaler_bound
    /\ \E f \in BOOLEAN : grads' = ScaledBackward(f)
    /\ pc' = "step"
    /\ UNCHANGED <<run, epoch, i, correct, total, training, params, moments,
                   scaler_bound, scale_log2, growth_tracker, found_inf, before>>
    /\ UNCHANGED <<vitVars, pair>>

\* Line 198 / 318: scaler.step(optimizer).
ScalerStep ==
    /\ pc = "step"
    /\ LET g == Unscale(grads)
           inf == ~g.finite
           r == MaybeOptStep(params, moments, g, inf)
       IN /\ grads' = g
          /\ found_inf' = inf
          /\ params' = r.params
          /\ moments' = r.moments
    /\ pc' = "update"
    /\ UNCHANGED <<run, epoch, i, correct, total, training, scaler_bound,
                   scale_log2, growth_tracker, before>>
    /\ UNCHANGED <<vitVars, pair>>

\* Line 199 / 319: scaler.update().
ScalerUpdate ==
    /\ pc = "update"
    /\ LET u == UpdateScale(scale_log2, growth_tracker, found_inf)
       IN /\ scale_log2' = u.scale_log2
          /\ growth_tracker' = u.growth_tracker
    /\ found_inf' = FALSE
    /\ pc' = "tally"
    /\ UNCHANGED <<run, epoch, i, correct, total, training, params, moments,
                   grads, scaler_bound, before>>
    /\ UNCHANGED <<vitVars, pair>>

\* The tallies of one batch (lines 201-204 / 321-324, 227-230 / 346-349):
\* h of its labels.size(0) predictions are right.
TallyBatch(c, t, n, k, h) == [correct |-> c + h, total |-> t + BatchLen(n, k)]

\* Lines 201-208 / 321-328: tallies, then the next batch or the return.
Tally ==
    /\ pc = "tally"
    /\ \E h \in 0..BatchLen(TrainSetSize, i) :
         LET t == TallyBatch(correct, total, TrainSetSize, i, h)
         IN /\ correct' = t.correct
            /\ total' = t.total
    /\ i' = i + 1
    /\ pc' = IF i + 1 = NumBatches(TrainSetSize) THEN "eval_begin" ELSE "forward"
    /\ UNCHANGED <<run, epoch, training, params, moments, grads, scaler_bound,
                   scale_log2, growth_tracker, found_inf, before>>
    /\ UNCHANGED <<vitVars, pair>>

\* ----------------------------------------------------------------- evaluate
\* Lines 211-216 / 330-335: model.eval(), tallies to zero.
EvalBegin ==
    /\ pc = "eval_begin"
    /\ training' = FALSE
    /\ correct' = 0
    /\ total' = 0
    /\ i' = 0
    /\ pc' = "eval_batch"
    /\ UNCHANGED <<run, epoch, params, moments, grads, scaler_bound, scale_log2,
                   growth_tracker, found_inf, before>>
    /\ UNCHANGED <<vitVars, pair>>

\* What one evaluation batch does to the training state: under torch.no_grad()
\* there is no backward pass, and neither optimizer nor scaler is called.
EvalEffect_trains(p, m, s, t) ==
    LET r == OptimizerStep(p, m, NoGrad)
        u == UpdateScale(s, t, FALSE)
    IN [params |-> r.params, moments |-> r.moments,
        scale_log2 |-> u.scale_log2, growth_tracker |-> u.growth_tracker]
EvalEffect(p, m, s, t) ==
    [params |-> p, moments |-> m, scale_log2 |-> s, growth_tracker |-> t]

\* Lines 218-234 / 337-353: one batch of the loop, and the return after the last.
EvalBatch ==
    /\ pc = "eval_batch"
    /\ \E h \in 0..BatchLen(TestSetSize, i) :
         LET t == TallyBatch(correct, total, TestSetSize, i, h)
         IN /\ correct' = t.correct
            /\ total' = t.total
    /\ LET e == EvalEffect(params, moments, scale_log2, growth_tracker)
       IN /\ params' = e.params
          /\ moments' = e.moments
          /\ scale_log2' = e.scale_log2
          /\ growth_tracker' = e.growth_tracker
    /\ i' = i + 1
    /\ pc' = IF i + 1 = NumBatches(TestSetSize) THEN "summary" ELSE "eval_batch"
    /\ UNCHANGED <<run, epoch, training, grads, scaler_bound, found_inf, before>>
    /\ UNCHANGED <<vitVars, pair>>

\* Lines 238-241 / 356-359: the epoch's summary line and the next epoch.
Summary ==
    /\ pc = "summary"
    /\ epoch' = epoch + 1
    /\ pc' = IF epoch + 1 < Epochs(run) THEN "train_begin" ELSE "done"
    /\ UNCHANGED <<run, i, correct, total, training, params, moments, grads,
                   scaler_bound, scale_log2, growth_tracker, found_inf, before>>
    /\ UNCHANGED <<vitVars, pair>>

Next ==
    \/ TrainBegin
    \/ Forward
    \/ BackwardNameError
    \/ Backward
    \/ ScalerStep
    \/ ScalerUpdate
    \/ Tally
    \/ EvalBegin
    \/ EvalBatch
    \/ Summary

Spec == Init /\ [][Next]_vars

\* ---------------------------------------------------------------------- ViT
\* Bounds of the configurations and input shapes drawn.
MaxImageSize == 4
MaxPatchSize == 2
MaxDim == 3
MaxHeads == 2
MaxChannels == 2
MaxDepth == 1
MaxInputSize == 5

Configs ==
    [image_size : 1..MaxImageSize, patch_size : 1..MaxPatchSize,
     dim : 1..MaxDim, heads : 1..MaxHeads, channels : 1..MaxChannels,
     depth : 1..MaxDepth]

\* ViT.__init__ (96-119), with Transformer.__init__ (80-87) and
\* Attention.__init__ (56-65): the assert of line 98, then per block
\* (dim // heads) ** -0.5, which raises ZeroDivisionError on a zero base.
ViTConstruct(c) ==
    IF c.image_size % c.patch_size # 0 THEN "AssertionError"
    ELSE IF c.depth > 0 /\ c.dim \div c.heads = 0 THEN "ZeroDivisionError"
    ELSE "built"

\* num_patches of line 99.
NumPatches(c) == (c.image_size \div c.patch_size) * (c.image_size \div c.patch_size)

\* ViT.forward (121-138) on an image batch [b, ch, h, w], b >= 1:
\*   Conv2d(channels, dim, kernel = stride = patch_size) wants ch = channels
\*   and h, w >= patch_size, and yields (h // p) * (w // p) tokens;
\*   x += pos_embedding wants that count + 1 = num_patches + 1;
\*   Attention.forward's reshape(b, n, heads, -1) wants dim % heads = 0.
ViTForward(c, ch, h, w) ==
    IF ch # c.channels \/ h < c.patch_size \/ w < c.patch_size THEN "RuntimeError"
    ELSE IF (h \div c.patch_size) * (w \div c.patch_size) + 1 # NumPatches(c) + 1
         THEN "RuntimeError"
    ELSE IF c.depth > 0 /\ c.dim % c.heads # 0 THEN "RuntimeError"
    ELSE "logits"

TrainIdle ==
    /\ run = "finetune"
    /\ TrainInit

InitViT ==
    /\ cfg \in Configs
    /\ vit = "none"
    /\ out = NoOut
    /\ TrainIdle
    /\ PairIdle

\* ViT(image_size = ..., ...), as at lines 164-174.
Construct ==
    /\ vit = "none"
    /\ vit' = ViTConstruct(cfg)
    /\ UNCHANGED <<cfg, out>>
    /\ UNCHANGED <<trainVars, pair>>

\* model(img) on a constructed model.
ForwardImg ==
    /\ vit = "built"
    /\ out.result = "none"
    /\ \E ch \in 1..MaxChannels, h \in 1..MaxInputSize, w \in 1..MaxInputSize :
         out' = [ch |-> ch, h |-> h, w |-> w, result |-> ViTForward(cfg, ch, h, w)]
    /\ UNCHANGED <<cfg, vit>>
    /\ UNCHANGED <<trainVars, pair>>

NextViT ==
    \/ Construct
    \/ ForwardImg

SpecViT == InitViT /\ [][NextViT]_vars

\* --------------------------------------------- two runs of the training loop
\* Two fine-tuning runs over the same batches, step by step: each has its own
\* scaler and its own gradients; skipped is the history of how many of its
\* steps the scaler skipped. The loop's own state (epoch, i, tallies) is the
\* same in both.
PairEpochs == 2

\* Lines 317-319 in one of the runs.
PairCopy(c, inf) ==
    LET u == UpdateScale(c.scale_log2, c.growth_tracker, inf)
    IN [scale_log2 |-> u.scale_log2, growth_tracker |-> u.growth_tracker,
        skipped |-> c.skipped + (IF inf THEN 1 ELSE 0)]

InitPair ==
    /\ pair = NoPair
    /\ TrainIdle
    /\ VitIdle

\* One iteration of the loop of lines 309-326 in both runs.
PairTrainStep ==
    /\ pair.epoch < Min(PairEpochs, EPOCHS)
    /\ pair.i < NumBatches(TrainSetSize)
    /\ \E fa \in BOOLEAN, fb \in BOOLEAN, h \in 0..BatchLen(TrainSetSize, pair.i) :
         LET t == TallyBatch(pair.correct, pair.total, TrainSetSize, pair.i, h)
         IN pair' = [a |-> PairCopy(pair.a, ~fa), b |-> PairCopy(pair.b, ~fb),
                     epoch |-> pair.epoch, i |-> pair.i + 1,
                     correct |-> t.correct, total |-> t.total]
    /\ UNCHANGED <<trainVars, vitVars>>

\* Lines 328, 358-359, 356-357, 303-306: the pass returns, evaluate and the
\* summary leave the scaler alone, the next epoch's pass starts its tallies.
PairNextEpoch ==
    /\ pair.i = NumBatches(TrainSetSize)
    /\ pair.epoch + 1 < Min(PairEpochs, EPOCHS)
    /\ pair' = [pair EXCEPT !.epoch = @ + 1, !.i = 0, !.correct = 0, !.total = 0]
    /\ UNCHANGED <<trainVars, vitVars>>

NextPair ==
    \/ PairTrainStep
    \/ PairNextEpoch

SpecPair == InitPair /\ [][NextPair]_vars

\* ------------------------------------------------------------ properties
\* pc = "tally": scaler.update() of the step has just returned; grads are
\* still the step's gradients and before is the state the step began in.
StepOverflowed == pc = "tally" /\ ~grads.finite
StepFinite == pc = "tally" /\ grads.finite

C2_FloorAndGrowth ==
    /\ scaler_bound => scale_log2 >= 0
    /\ pc = "tally" =>
         /\ scale_log2 > before.scale_log2 =>
              grads.finite /\ before.growth_tracker + 1 = GrowthInterval
         /\ ~grads.finite => growth_tracker = 0

C4_ScaleStateCarried ==
    [][/\ pc = "backward" => scaler_bound
       /\ (pc = "backward" /\ epoch = 0 /\ i = 0) =>
            (scale_log2 = InitScaleLog2 /\ growth_tracker = 0)
       /\ pc # "update" =>
            (UNCHANGED <<scaler_bound, scale_log2, growth_tracker>>)
      ]_vars

\* C5: the number of steps skipped for overflow can be told from the loop's
\* state and results: two runs that agree on the loop's state (epoch, batch
\* index, tallies, and the scaler's scale and counter) skipped equally often.
C5_SkipsReportable ==
    (/\ pair.a.scale_log2 = pair.b.scale_log2
     /\ pair.a.growth_tracker = pair.b.growth_tracker)
        => pair.a.skipped = pair.b.skipped

\* C6: constructing the model fails exactly when image_size is not divisible
\* by patch_size or dim is not divisible by heads.
C6_ConstructionValidates ==
    vit # "none" =>
        (vit # "built" <=>
            (cfg.image_size % cfg.patch_size # 0 \/ cfg.dim % cfg.heads # 0))

\* C7: forward yields logits only for an input whose channels, height and
\* width all equal the configuration; every other input raises.
C7_ForwardChecksShape ==
    out.result = "logits" =>
        /\ out.ch = cfg.channels
        /\ out.h = cfg.image_size
        /\ out.w = cfg.image_size

\* C8: no step of evaluate changes parameters, optimizer moments, gradients,
\* the loss scale, the success counter or the scaler's inf flag.
C8_EvaluateFrame ==
    [][(pc \in {"eval_begin", "eval_batch"}) =>
         (UNCHANGED <<params, moments, grads, scaler_bound, scale_log2,
                      growth_tracker, found_inf>>)]_vars

C8_Witness == pc = "summary" /\ params > 0 /\ scale_log2 < InitScaleLog2

\* The phases of a step: COMMIT is the optimizer update of scaler.step and the
\* scaler.update that follows it, both after a check that found no inf/NaN.
InCommit ==
    \/ pc = "step" /\ grads.finite
    \/ pc = "update" /\ ~found_inf

C10_Tallies ==
    /\ pc \in {"forward", "backward", "step", "update", "tally", "NameError"} =>
         total = Min(i * BatchSize, TrainSetSize)
    /\ pc = "eval_begin" => (i = NumBatches(TrainSetSize) /\ total = TrainSetSize)
    /\ pc = "eval_batch" => total = Min(i * BatchSize, TestSetSize)
    /\ pc = "summary" => (i = NumBatches(TestSetSize) /\ total = TestSetSize)
    /\ 0 <= correct /\ correct <= total
    /\ pc \in {"eval_begin", "summary"} => total > 0
    /\ total > 0 =>
         LET a == Accuracy(correct, total)
         IN 0 <= a.num /\ a.num <= 100 * a.den

C10_Witness ==
    /\ pc = "eval_begin"
    /\ params < i
    /\ params > 0
    /\ BatchLen(TrainSetSize, i - 1) < BatchSize
    /\ 0 < correct /\ correct < total

====
